---- MODULE Spec2Model ----
(***************************************************************************)
(* Model of the Grover search controller                                   *)
(* (qiskit_aqua/algorithms/single_sample/grover/grover.py).                *)
(*                                                                         *)
(* The controller object is the record `self`; the local variables of one  *)
(* activation of Grover.run are the record `frame`.  The oracle and the    *)
(* execution backend are external: every oracle is a pair of a decode      *)
(* function (interpret_measurement) and a set of satisfying assignments    *)
(* (evaluate_classically), and every execute call either fails or returns  *)
(* one of a small set of sample-count values.                              *)
(*                                                                         *)
(* self._max_num_iterations is the Python float 2 ** (N / 2), which is     *)
(* irrational for odd N.  It is represented exactly by its square, 2^N:    *)
(* for a non-negative integer i,  i <= 2 ** (N/2)  iff  i*i <= 2^N.        *)
(***************************************************************************)
EXTENDS Integers, Sequences, FiniteSets, TLC

\* ---------------------------------------------------------------- bounds
MaxN == 4
MaxM == 5
NumCounts == 2
NumAssignments == 2
\* widths and round counts of the two-controller runs
TwinMaxN == 3
TwinMaxM == 3

Widths == 1..MaxN
Iterations == 1..MaxM
Counts == 1..NumCounts
Assignments == 1..NumAssignments
Backends == {"qasm", "statevector"}
TwinWidths == 1..TwinMaxN
TwinIterations == 1..TwinMaxM

\* an execute call that raises is the response 0
ExecuteFailed == 0
\* a local name of run() that is not bound yet
Unbound == 0

\* ------------------------------------------------------- circuits (qiskit)
\* QuantumCircuit(): no registers, no operations
EmptyCircuit == [regs |-> {}, data |-> << >>]

\* a + b : a new circuit, registers combined, operations concatenated
Combine(a, b) == [regs |-> a.regs \cup b.regs, data |-> a.data \o b.data]

\* Extend by two copies of the block (mutation of Extend)
ExtendTwice(a, b) == [regs |-> a.regs \cup b.regs, data |-> a.data \o b.data \o b.data]

\* a += b : a itself is extended by the operations of b
Extend(a, b) == [regs |-> a.regs \cup b.regs, data |-> a.data \o b.data]

AncRegs(oracle) == IF oracle.ancillary THEN {"a"} ELSE {}

\* self._oracle.construct_circuit(): opaque predicate-evaluation fragment
OracleCircuit(oracle) ==
    [regs |-> {"v", "o"} \cup AncRegs(oracle), data |-> << <<"oracle">> >>]

\* Grover._construct_circuit_components
ConstructCircuitComponents(oracle) ==
    LET qc_prefix == [regs |-> {"v", "m"} \cup AncRegs(oracle),
                      data |-> << <<"h", "v">> >>]
        amp0 == Extend([regs |-> {"v"} \cup AncRegs(oracle), data |-> << >>],
                       OracleCircuit(oracle))
        cnx == IF oracle.ancillary THEN <<"cnx", "v", "a", "o">>
                                   ELSE <<"cnx", "v", "o">>
        qc_single == [regs |-> amp0.regs,
                      data |-> amp0.data \o
                               << <<"h", "v">>, <<"x", "v">>, <<"x", "o">>,
                                  <<"h", "o">>, cnx, <<"h", "o">>,
                                  <<"x", "v">>, <<"x", "o">>, <<"h", "v">>,
                                  <<"h", "o">> >>]
        qc_measurement == [regs |-> {"v", "m"},
                           data |-> << <<"barrier", "v">>,
                                       <<"measure", "v", "m">> >>]
    IN  [qc_prefix |-> qc_prefix,
         qc_amplitude_amplification_single_iteration |-> qc_single,
         qc_measurement |-> qc_measurement]

\* range(num_iterations) loop of fixed mode: n times  amp += single
RECURSIVE ExtendTimes(_, _, _)
ExtendTimes(amp, single, n) ==
    IF n <= 0 THEN amp ELSE ExtendTimes(Extend(amp, single), single, n - 1)

\* ----------------------------------------------------------- __init__
\* precedence slip 2 ** len / 2, squared (mutation of MaxNumIterationsSq)
MaxNumIterationsHalved(n) == ((2 ^ n) * (2 ^ n)) \div 4

\* square of self._max_num_iterations = 2 ** (len(variable_register) / 2)
MaxNumIterationsSq(n) == 2 ^ n

\* num_iterations >= self._max_num_iterations (mutation of ExceedsMax)
ReachesMax(num_iterations, max_sq) == num_iterations * num_iterations >= max_sq

\* num_iterations > self._max_num_iterations
ExceedsMax(num_iterations, max_sq) == num_iterations * num_iterations > max_sq

\* the warning branch without the incremental test (mutation of WarnsTooHigh)
WarnsTooHighAnyMode(incremental, num_iterations, max_sq) ==
    ExceedsMax(num_iterations, max_sq)

\* whether __init__ logs 'The specified value ... might be too high.'
WarnsTooHigh(incremental, num_iterations, max_sq) ==
    IF incremental THEN FALSE ELSE ExceedsMax(num_iterations, max_sq)

\* the empty dict {}
EmptyDict == [k \in {} |-> 0]

\* d.setdefault(key, value) (mutation of Put)
PutIfAbsent(d, key, value) ==
    [k \in DOMAIN d \cup {key} |-> IF k \in DOMAIN d THEN d[k] ELSE value]

\* d[key] = value
Put(d, key, value) ==
    [k \in DOMAIN d \cup {key} |-> IF k = key THEN value ELSE d[k]]

\* the object built by Grover(oracle, incremental, num_iterations)
Construct(oracle, incremental, num_iterations) ==
    [oracle |-> oracle,
     max_num_iterations_sq |-> MaxNumIterationsSq(oracle.n),
     incremental |-> incremental,
     num_iterations |-> num_iterations,
     ret |-> EmptyDict]

\* ----------------------------------------------------------- run()
\* backend test that never rejects (mutation of IsStatevectorBackend)
NeverStatevector(backend) == FALSE

\* QuantumAlgorithm.is_statevector_backend(self.backend), as used by run
IsStatevectorBackend(backend) == backend = "statevector"

\* while True (mutation of LoopCondition)
LoopConditionAlways(current_num_iterations, max_sq) == TRUE

\* current_num_iterations < self._max_num_iterations (mutation of LoopCondition)
LoopConditionStrict(current_num_iterations, max_sq) ==
    current_num_iterations * current_num_iterations < max_sq

\* current_num_iterations - 1 <= self._max_num_iterations (mutation of LoopCondition)
LoopConditionOneMore(current_num_iterations, max_sq) ==
    (current_num_iterations - 1) * (current_num_iterations - 1) <= max_sq

\* while current_num_iterations <= self._max_num_iterations
LoopCondition(current_num_iterations, max_sq) ==
    current_num_iterations * current_num_iterations <= max_sq

\* the loop never breaks (mutation of BreaksLoop)
NeverBreaks(oracle_evaluation) == FALSE

\* if not oracle_evaluation: break (mutation of BreaksLoop)
BreaksOnFailure(oracle_evaluation) == ~oracle_evaluation

\* if oracle_evaluation: break
BreaksLoop(oracle_evaluation) == oracle_evaluation

\* range(min(num_iterations, max)) (mutation of FixedRounds)
FixedRoundsClamped(num_iterations, max_sq) ==
    IF ExceedsMax(num_iterations, max_sq)
    THEN CHOOSE k \in 0..num_iterations :
             k * k <= max_sq /\ (k + 1) * (k + 1) > max_sq
    ELSE num_iterations

\* number of passes of  for i in range(self._num_iterations)
FixedRounds(num_iterations, max_sq) == num_iterations

\* oracle.interpret_measurement(measurements): the oracle's decode policy
InterpretMeasurement(oracle, measurements) == oracle.decode[measurements]

\* oracle.evaluate_classically(assignment): the oracle's classical check
EvaluateClassically(oracle, assignment) == assignment \in oracle.sat

\* the flag read off the sample counts (mutation of OracleEvaluation)
OracleEvaluationFromCounts(oracle, measurements, assignment) == measurements = 1

\* line 157: oracle_evaluation = self._oracle.evaluate_classically(assignment)
OracleEvaluation(oracle, measurements, assignment) ==
    EvaluateClassically(oracle, assignment)

\* a failed execute is swallowed and the loop goes on (mutation of PcAfterExecuteFailure)
PcAfterExecuteFailureRetry == "execute"

\* an exception of self.execute leaves run
PcAfterExecuteFailure == "raised"

\* the locals of run() before the call
NoFrame ==
    [qc_prefix |-> EmptyCircuit,
     qc_amplitude_amplification_single_iteration |-> EmptyCircuit,
     qc_measurement |-> EmptyCircuit,
     qc_amplitude_amplification |-> EmptyCircuit,
     current_num_iterations |-> Unbound,
     qc |-> EmptyCircuit,
     assignment |-> Unbound,
     oracle_evaluation |-> FALSE]

\* qc_prefix += ...: the prefix itself is extended (mutation of AssembledFrame)
AssembledFrameInPlace(f) ==
    LET qc == Combine(Combine(f.qc_prefix, f.qc_amplitude_amplification),
                      f.qc_measurement)
    IN  [f EXCEPT !.qc = qc, !.qc_prefix = qc]

\* line 153: qc = qc_prefix + qc_amplitude_amplification + qc_measurement
AssembledFrame(f) ==
    [f EXCEPT !.qc = Combine(Combine(f.qc_prefix, f.qc_amplitude_amplification),
                             f.qc_measurement)]

VARIABLES
    self,            \* the Grover object: oracle, max, incremental, num_iterations, ret
    backend,         \* self.backend
    warnings,        \* number of 'too high' warnings logged by __init__
    pc,              \* position in run()
    frame,           \* locals of run()
    raised,          \* exception that left run(), or "none"
    returned,        \* what run() returned: "nothing" or "self._ret"
    executeCalls,    \* programs passed to self.execute, in order
    responses,       \* what each execute call answered (counts or ExecuteFailed)
    decodeCalls,     \* counts passed to oracle.interpret_measurement
    verifyCalls,     \* [arg, ret] of each oracle.evaluate_classically call
    constructCalls,  \* number of _construct_circuit_components calls
    replay,          \* adapter responses a second controller is given
    first            \* outcome of the first controller, once a second is built

vars == <<self, backend, warnings, pc, frame, raised, returned, executeCalls,
          responses, decodeCalls, verifyCalls, constructCalls, replay, first>>

\* Oracles up to renaming of assignments: the counts 1, 2, ... decode to
\* assignments numbered in order of first appearance, and only assignments
\* that some counts value decodes to can be satisfying (no other assignment
\* is ever passed to evaluate_classically).
CanonicalOracle(o) ==
    /\ o.decode[1] = 1
    /\ \A c \in Counts \ {1} :
           \E c0 \in 1..(c - 1) : o.decode[c] <= o.decode[c0] + 1
    /\ o.sat \subseteq {o.decode[c] : c \in Counts}

Oracles ==
    {o \in [n : Widths \cup TwinWidths, ancillary : BOOLEAN,
            decode : [Counts -> Assignments], sat : SUBSET Assignments] :
        CanonicalOracle(o)}

\* the state after Grover(o, inc, m) with o.n in widths and m in iterations
InitOver(widths, iterations) ==
    \E o \in Oracles, inc \in BOOLEAN, m \in iterations, b \in Backends :
        /\ o.n \in widths
        /\ self = Construct(o, inc, m)
        /\ backend = b
        /\ warnings = IF WarnsTooHigh(inc, m, MaxNumIterationsSq(o.n)) THEN 1 ELSE 0
        /\ pc = "idle"
        /\ frame = NoFrame
        /\ raised = "none"
        /\ returned = "nothing"
        /\ executeCalls = << >>
        /\ responses = << >>
        /\ decodeCalls = << >>
        /\ verifyCalls = << >>
        /\ constructCalls = 0
        /\ replay = << >>
        /\ first = [active |-> FALSE]

Init == InitOver(Widths, Iterations)

\* run(), lines 162-171 and 180-182: backend check, fragments, first amplification fragment
RunBegin ==
    /\ pc = "idle"
    /\ IF IsStatevectorBackend(backend)
       THEN /\ raised' = "ValueError"
            /\ pc' = "raised"
            /\ UNCHANGED <<frame, constructCalls>>
       ELSE LET c == ConstructCircuitComponents(self.oracle)
                single == c.qc_amplitude_amplification_single_iteration
                base == [NoFrame EXCEPT
                           !.qc_prefix = c.qc_prefix,
                           !.qc_amplitude_amplification_single_iteration = single,
                           !.qc_measurement = c.qc_measurement]
            IN  /\ constructCalls' = constructCalls + 1
                /\ raised' = raised
                /\ IF self.incremental
                   THEN /\ frame' = [base EXCEPT
                              !.qc_amplitude_amplification = Extend(EmptyCircuit, single),
                              !.current_num_iterations = 1]
                        /\ pc' = "loop_test"
                   ELSE /\ frame' = [base EXCEPT
                              !.qc_amplitude_amplification =
                                  ExtendTimes(EmptyCircuit, single,
                                      FixedRounds(self.num_iterations,
                                                  self.max_num_iterations_sq))]
                        /\ pc' = "assemble"
    /\ UNCHANGED <<self, backend, warnings, returned, executeCalls, responses,
                   decodeCalls, verifyCalls, replay, first>>

\* line 172: the while test
LoopTest ==
    /\ pc = "loop_test"
    /\ pc' = IF LoopCondition(frame.current_num_iterations, self.max_num_iterations_sq)
             THEN "assemble" ELSE "finish"
    /\ UNCHANGED <<self, backend, warnings, frame, raised, returned, executeCalls,
                   responses, decodeCalls, verifyCalls, constructCalls, replay, first>>

\* lines 153-154: qc = prefix + amplification + measurement; self._ret['circuit'] = qc
Assemble ==
    /\ pc = "assemble"
    /\ frame' = AssembledFrame(frame)
    /\ self' = [self EXCEPT !.ret = Put(self.ret, "circuit", AssembledFrame(frame).qc)]
    /\ pc' = "execute"
    /\ UNCHANGED <<backend, warnings, raised, returned, executeCalls, responses,
                   decodeCalls, verifyCalls, constructCalls, replay, first>>

\* the answers the adapter may give to the next execute call
ExecuteResponses ==
    IF Len(responses) < Len(replay)
    THEN {replay[Len(responses) + 1]}
    ELSE Counts \cup {ExecuteFailed}

\* line 155: self._ret['measurements'] = self.execute(qc).get_counts(qc)
Execute ==
    /\ pc = "execute"
    /\ \E r \in ExecuteResponses :
        /\ executeCalls' = Append(executeCalls, frame.qc)
        /\ responses' = Append(responses, r)
        /\ IF r = ExecuteFailed
           THEN /\ raised' = IF PcAfterExecuteFailure = "raised"
                             THEN "ExecutionFailure" ELSE raised
                /\ pc' = PcAfterExecuteFailure
                /\ self' = self
           ELSE /\ self' = [self EXCEPT !.ret = Put(self.ret, "measurements", r)]
                /\ pc' = "decode"
                /\ raised' = raised
    /\ UNCHANGED <<backend, warnings, frame, returned, decodeCalls, verifyCalls,
                   constructCalls, replay, first>>

\* line 156: assignment = self._oracle.interpret_measurement(self._ret['measurements'])
Decode ==
    /\ pc = "decode"
    /\ decodeCalls' = Append(decodeCalls, self.ret["measurements"])
    /\ frame' = [frame EXCEPT
                   !.assignment = InterpretMeasurement(self.oracle, self.ret["measurements"])]
    /\ pc' = "verify"
    /\ UNCHANGED <<self, backend, warnings, raised, returned, executeCalls, responses,
                   verifyCalls, constructCalls, replay, first>>

\* lines 157-158 and 176-179: evaluate_classically, then break or grow
Verify ==
    /\ pc = "verify"
    /\ LET ev == OracleEvaluation(self.oracle, self.ret["measurements"], frame.assignment)
       IN  /\ verifyCalls' = Append(verifyCalls,
                                    [arg |-> frame.assignment,
                                     ret |-> EvaluateClassically(self.oracle,
                                                                 frame.assignment)])
           /\ IF ~self.incremental
              THEN /\ frame' = [frame EXCEPT !.oracle_evaluation = ev]
                   /\ pc' = "finish"
              ELSE IF BreaksLoop(ev)
              THEN /\ frame' = [frame EXCEPT !.oracle_evaluation = ev]
                   /\ pc' = "finish"
              ELSE /\ frame' = [frame EXCEPT
                         !.oracle_evaluation = ev,
                         !.current_num_iterations = frame.current_num_iterations + 1,
                         !.qc_amplitude_amplification =
                             Extend(frame.qc_amplitude_amplification,
                                    frame.qc_amplitude_amplification_single_iteration)]
                   /\ pc' = "loop_test"
    /\ UNCHANGED <<self, backend, warnings, raised, returned, executeCalls, responses,
                   decodeCalls, constructCalls, replay, first>>

\* lines 187-189: store result and oracle_evaluation, return self._ret
Finish ==
    /\ pc = "finish"
    /\ IF frame.assignment = Unbound
       THEN /\ raised' = "UnboundLocalError"
            /\ pc' = "raised"
            /\ UNCHANGED <<self, returned>>
       ELSE /\ self' = [self EXCEPT
                   !.ret = Put(Put(self.ret, "result", frame.assignment),
                               "oracle_evaluation", frame.oracle_evaluation)]
            /\ returned' = "self._ret"
            /\ pc' = "done"
            /\ raised' = raised
    /\ UNCHANGED <<backend, warnings, frame, executeCalls, responses, decodeCalls,
                   verifyCalls, constructCalls, replay, first>>

Next ==
    \/ RunBegin
    \/ LoopTest
    \/ Assemble
    \/ Execute
    \/ Decode
    \/ Verify
    \/ Finish

Spec == Init /\ [][Next]_vars

\* run() is sequential code executed by one thread: whenever a next statement
\* exists it is eventually executed (every execute, interpret_measurement and
\* evaluate_classically call returns or raises).
SpecFair == Init /\ [][Next]_vars /\ WF_vars(Next)

\* A second controller, Grover(oracle, incremental, m2), differing from the
\* first only in num_iterations, is built after the first run has ended and
\* is run against the same backend with the same adapter responses.
ConstructTwin ==
    /\ pc \in {"done", "raised"}
    /\ ~first.active
    /\ \E m2 \in TwinIterations \ {self.num_iterations} :
        /\ first' = [active |-> TRUE, self |-> self, warnings |-> warnings,
                     raised |-> raised, returned |-> returned,
                     executeCalls |-> executeCalls, decodeCalls |-> decodeCalls,
                     verifyCalls |-> verifyCalls]
        /\ self' = Construct(self.oracle, self.incremental, m2)
        /\ warnings' = IF WarnsTooHigh(self.incremental, m2,
                                       MaxNumIterationsSq(self.oracle.n))
                       THEN 1 ELSE 0
    /\ replay' = responses
    /\ pc' = "idle"
    /\ frame' = NoFrame
    /\ raised' = "none"
    /\ returned' = "nothing"
    /\ executeCalls' = << >>
    /\ responses' = << >>
    /\ decodeCalls' = << >>
    /\ verifyCalls' = << >>
    /\ constructCalls' = 0
    /\ UNCHANGED backend

NextTwin ==
    \/ RunBegin
    \/ LoopTest
    \/ Assemble
    \/ Execute
    \/ Decode
    \/ Verify
    \/ Finish
    \/ ConstructTwin

InitTwin == InitOver(TwinWidths, TwinIterations)

SpecTwin == InitTwin /\ [][NextTwin]_vars

\* The dict a run returned: line 189 returns the object self._ret itself, and
\* line 76 (__init__) is the only place where a dict is created, so the
\* result handed out by any earlier run of this controller is this object.
EarlierResult == self.ret

\* run() is called again on the same controller after a run has ended:
\* a new activation with new locals; the object (self._ret included) is kept.
\* first.result keeps the value the most recently returned result had at the
\* moment it was returned.
RunAgain ==
    /\ pc \in {"done", "raised"}
    /\ IF first.active THEN first.phase = "rerun" ELSE TRUE
    /\ first' = [active |-> TRUE, phase |-> "rerun",
                 held |-> IF returned = "self._ret" THEN TRUE
                          ELSE IF first.active THEN first.held ELSE FALSE,
                 result |-> IF returned = "self._ret" THEN self.ret
                            ELSE IF first.active THEN first.result ELSE EmptyDict]
    /\ pc' = "idle"
    /\ frame' = NoFrame
    /\ raised' = "none"
    /\ returned' = "nothing"
    /\ executeCalls' = << >>
    /\ responses' = << >>
    /\ decodeCalls' = << >>
    /\ verifyCalls' = << >>
    /\ constructCalls' = 0
    /\ UNCHANGED <<self, backend, warnings, replay>>

\* After a run that followed earlier runs has ended, a new controller with
\* the same configuration, Grover(oracle, incremental, num_iterations), is
\* built and run against the same backend with the same adapter responses.
ConstructFresh ==
    /\ pc \in {"done", "raised"}
    /\ first.active /\ first.phase = "rerun"
    /\ first' = [active |-> TRUE, phase |-> "fresh",
                 raised |-> raised, returned |-> returned, ret |-> self.ret,
                 executeCalls |-> executeCalls, decodeCalls |-> decodeCalls,
                 verifyCalls |-> verifyCalls]
    /\ self' = Construct(self.oracle, self.incremental, self.num_iterations)
    /\ warnings' = IF WarnsTooHigh(self.incremental, self.num_iterations,
                                   MaxNumIterationsSq(self.oracle.n))
                   THEN 1 ELSE 0
    /\ replay' = responses
    /\ pc' = "idle"
    /\ frame' = NoFrame
    /\ raised' = "none"
    /\ returned' = "nothing"
    /\ executeCalls' = << >>
    /\ responses' = << >>
    /\ decodeCalls' = << >>
    /\ verifyCalls' = << >>
    /\ constructCalls' = 0
    /\ UNCHANGED backend

NextRerun ==
    \/ RunBegin
    \/ LoopTest
    \/ Assemble
    \/ Execute
    \/ Decode
    \/ Verify
    \/ Finish
    \/ RunAgain
    \/ ConstructFresh

InitRerun == InitOver(TwinWidths, TwinIterations)

SpecRerun == InitRerun /\ [][NextRerun]_vars

\* ------------------------------------------------------------ properties
\* floor(2^(N/2)): the largest integer k with k*k <= 2^N
MaxK(n) == CHOOSE k \in 0..(2 ^ n) : k * k <= 2 ^ n /\ (k + 1) * (k + 1) > 2 ^ n

\* s repeated n times
RECURSIVE Repeat(_, _)
Repeat(s, n) == IF n = 0 THEN << >> ELSE s \o Repeat(s, n - 1)

\* prefix, then k amplification blocks, then measurement, for the bound oracle
ProgramOfRounds(k) ==
    LET c == ConstructCircuitComponents(self.oracle)
        single == c.qc_amplitude_amplification_single_iteration
    IN  [regs |-> c.qc_prefix.regs \cup single.regs \cup c.qc_measurement.regs,
         data |-> c.qc_prefix.data \o Repeat(single.data, k) \o c.qc_measurement.data]

Ended == pc \in {"done", "raised"}

NoExecuteFailure == \A i \in 1..Len(responses) : responses[i] # ExecuteFailed

NoneVerified == \A i \in 1..Len(verifyCalls) : ~verifyCalls[i].ret

CompleteResult ==
    DOMAIN self.ret = {"circuit", "measurements", "result", "oracle_evaluation"}

\* C1: in incremental mode a run makes at most max_k = floor(2^(N/2)) trials
\* and makes no trial after the first one whose assignment verifies; when the
\* first trial verifies, the run that returns made exactly one trial and its
\* result has verified = true.
C1_IncrementalStopsAtFirstVerified ==
    self.incremental =>
        /\ Len(executeCalls) <= MaxK(self.oracle.n)
        /\ \A i \in 1..Len(verifyCalls) :
               verifyCalls[i].ret => Len(executeCalls) = i
        /\ (pc = "done" /\ Len(verifyCalls) >= 1 /\ verifyCalls[1].ret) =>
               /\ Len(executeCalls) = 1
               /\ self.ret["oracle_evaluation"] = TRUE

C1_Witness ==
    /\ self.incremental
    /\ pc = "done"
    /\ MaxK(self.oracle.n) >= 2
    /\ Len(executeCalls) = 1
    /\ verifyCalls[1].ret
    /\ self.ret["oracle_evaluation"] = TRUE

\* C2: in incremental mode, on a sampling backend whose executions all
\* succeed, a run in which no assignment verifies ends by returning (no
\* error) after exactly max_k trials, with a complete result whose verified
\* flag is false and whose assignment is the one decoded in trial max_k.
C2_ExhaustionAfterMaxK ==
    (self.incremental /\ ~IsStatevectorBackend(backend) /\ Ended
        /\ NoExecuteFailure /\ NoneVerified) =>
        /\ pc = "done"
        /\ raised = "none"
        /\ returned = "self._ret"
        /\ Len(executeCalls) = MaxK(self.oracle.n)
        /\ Len(verifyCalls) = MaxK(self.oracle.n)
        /\ CompleteResult
        /\ self.ret["oracle_evaluation"] = FALSE
        /\ self.ret["result"] = verifyCalls[MaxK(self.oracle.n)].arg
        /\ self.ret["result"] =
               InterpretMeasurement(self.oracle, responses[MaxK(self.oracle.n)])

C2_Witness ==
    /\ self.incremental
    /\ pc = "done"
    /\ NoneVerified
    /\ MaxK(self.oracle.n) = 4
    /\ Len(executeCalls) = 4
    /\ self.ret["oracle_evaluation"] = FALSE
    /\ self.oracle.sat # {}

\* C3: in fixed mode with num_iterations = m a run executes at most one
\* program, that program is prefix + m blocks + measurement whatever the
\* relation of m to max_k, a run that returns has executed once, decoded once
\* and verified once, and after the verification the run only finishes.
C3_FixedModeOneTrial ==
    ~self.incremental =>
        /\ Len(executeCalls) <= 1
        /\ \A i \in 1..Len(executeCalls) :
               executeCalls[i] = ProgramOfRounds(self.num_iterations)
        /\ pc = "done" =>
               /\ Len(executeCalls) = 1
               /\ Len(decodeCalls) = 1
               /\ Len(verifyCalls) = 1
        /\ Len(verifyCalls) = 1 => pc \in {"finish", "done"}

C3_Witness ==
    /\ ~self.incremental
    /\ pc = "done"
    /\ self.num_iterations > MaxK(self.oracle.n)
    /\ self.oracle.n > 1
    /\ Len(executeCalls) = 1
    /\ self.ret["oracle_evaluation"] = FALSE

\* C4: in both modes the verified flag of a returned result is the value the
\* oracle's classical verification returned for the returned assignment, and
\* the returned assignment is the argument of that (last) verification call,
\* decoded from the returned sample counts.
C4_VerifiedIsOracleVerdict ==
    pc = "done" =>
        /\ Len(verifyCalls) >= 1
        /\ self.ret["result"] = verifyCalls[Len(verifyCalls)].arg
        /\ self.ret["oracle_evaluation"] = verifyCalls[Len(verifyCalls)].ret
        /\ self.ret["oracle_evaluation"] =
               EvaluateClassically(self.oracle, self.ret["result"])
        /\ self.ret["result"] =
               InterpretMeasurement(self.oracle, self.ret["measurements"])

C4_Witness ==
    /\ pc = "done"
    /\ Len(verifyCalls) >= 2
    /\ self.ret["oracle_evaluation"] = TRUE
    /\ self.ret["measurements"] # 1

\* C5: on a statevector backend run raises before any fragment is built and
\* before any execute, decode or verify call, in either mode, and returns
\* nothing.
C5_StatevectorRejectedUpFront ==
    backend = "statevector" =>
        /\ pc \in {"idle", "raised"}
        /\ pc = "raised" => raised = "ValueError"
        /\ constructCalls = 0
        /\ executeCalls = << >>
        /\ decodeCalls = << >>
        /\ verifyCalls = << >>
        /\ self.ret = EmptyDict
        /\ returned = "nothing"

C5_Witness ==
    /\ backend = "statevector"
    /\ pc = "raised"
    /\ raised = "ValueError"
    /\ self.incremental

\* C6: when the adapter fails in trial k the run is over: the failure leaves
\* run, the failed call is the last execute call, nothing was decoded or
\* verified for trial k, and run returns nothing.
C6_ExecutionFailureAborts ==
    \A k \in 1..Len(responses) :
        responses[k] = ExecuteFailed =>
            /\ k = Len(responses)
            /\ Len(executeCalls) = k
            /\ pc = "raised"
            /\ raised = "ExecutionFailure"
            /\ Len(decodeCalls) = k - 1
            /\ Len(verifyCalls) = k - 1
            /\ returned = "nothing"

C6_Witness ==
    /\ raised = "ExecutionFailure"
    /\ pc = "raised"
    /\ Len(responses) = 3
    /\ responses[3] = ExecuteFailed
    /\ returned = "nothing"

\* C7 as stated: the value computed at construction is the integer
\* floor(2^(N/2)) and is at least 1.
C7_MaxIsIntegerFloor ==
    /\ self.max_num_iterations_sq = MaxK(self.oracle.n) * MaxK(self.oracle.n)
    /\ MaxK(self.oracle.n) >= 1

\* C7 (amended): the value computed at construction is the real number
\* 2^(N/2), not floored; it is at least 1, it is the integer floor(2^(N/2))
\* exactly when N is even, and the integers k that pass the loop test
\* k <= max are exactly those with k <= floor(2^(N/2)), which is >= 1.
C7_MaxIsRealPowerWithFloorBound ==
    /\ self.max_num_iterations_sq = 2 ^ self.oracle.n
    /\ self.max_num_iterations_sq >= 1
    /\ MaxK(self.oracle.n) >= 1
    /\ (self.max_num_iterations_sq = MaxK(self.oracle.n) * MaxK(self.oracle.n))
           <=> (self.oracle.n % 2 = 0)
    /\ \A k \in 0..(2 ^ self.oracle.n) :
           LoopCondition(k, self.max_num_iterations_sq) <=> k <= MaxK(self.oracle.n)
    /\ (self.incremental /\ pc = "finish" /\ ~frame.oracle_evaluation) =>
           Len(executeCalls) = MaxK(self.oracle.n)

C7_Witness ==
    /\ self.oracle.n = 3
    /\ self.max_num_iterations_sq = 8
    /\ self.incremental
    /\ pc = "finish"
    /\ ~frame.oracle_evaluation
    /\ Len(executeCalls) = 2

\* C8: in fixed mode the 'too high' warning is logged iff num_iterations m is
\* greater than max_k = floor(2^(N/2)); with or without the warning the
\* controller is constructed and its run makes one trial with m blocks.
C8_WarningIffAboveMaxK ==
    ~self.incremental =>
        /\ (warnings = 1) <=> (self.num_iterations > MaxK(self.oracle.n))
        /\ warnings \in {0, 1}
        /\ self.num_iterations >= 1
        /\ raised \in {"none", "ValueError", "ExecutionFailure"}
        /\ (pc = "done") =>
               /\ executeCalls = << ProgramOfRounds(self.num_iterations) >>
               /\ self.ret["circuit"] = ProgramOfRounds(self.num_iterations)
               /\ returned = "self._ret"

C8_Witness ==
    /\ ~self.incremental
    /\ warnings = 1
    /\ self.num_iterations = MaxK(self.oracle.n) + 1
    /\ pc = "done"
    /\ returned = "self._ret"

IsPrefix(s, t) == Len(s) <= Len(t) /\ \A i \in 1..Len(s) : s[i] = t[i]

\* C9: in incremental mode a second controller that differs from the first
\* only in num_iterations and receives the same adapter responses makes the
\* same trials with the same programs, ends the same way with the same
\* result, and neither controller logs the 'too high' warning.
C9_IncrementalIgnoresNumIterations ==
    self.incremental =>
        /\ warnings = 0
        /\ first.active =>
               /\ first.warnings = 0
               /\ self.num_iterations # first.self.num_iterations
               /\ IsPrefix(executeCalls, first.executeCalls)
               /\ IsPrefix(decodeCalls, first.decodeCalls)
               /\ IsPrefix(verifyCalls, first.verifyCalls)
               /\ Ended =>
                      /\ executeCalls = first.executeCalls
                      /\ decodeCalls = first.decodeCalls
                      /\ verifyCalls = first.verifyCalls
                      /\ raised = first.raised
                      /\ returned = first.returned
                      /\ self.ret = first.self.ret

C9_Witness ==
    /\ self.incremental
    /\ first.active
    /\ pc = "done"
    /\ self.num_iterations > MaxK(self.oracle.n)
    /\ first.self.num_iterations <= MaxK(self.oracle.n)
    /\ Len(executeCalls) >= 2
    /\ executeCalls = first.executeCalls
    /\ self.ret = first.self.ret

\* C10: in incremental mode the program assembled for the trial with round
\* count k is the program fixed mode assembles for num_iterations = k, and
\* every growth step replaces the amplification fragment by itself with one
\* block appended (and nothing else changes it).
C10_AssemblyByConcatenation ==
    [][self.incremental =>
        /\ (pc = "assemble" /\ pc' = "execute") =>
               /\ frame'.qc =
                      Combine(Combine(frame.qc_prefix,
                                      ExtendTimes(EmptyCircuit,
                                          frame.qc_amplitude_amplification_single_iteration,
                                          FixedRounds(frame.current_num_iterations,
                                                      self.max_num_iterations_sq))),
                              frame.qc_measurement)
               /\ frame'.qc = ProgramOfRounds(frame.current_num_iterations)
        /\ (pc = "verify" /\ pc' = "loop_test") =>
               /\ frame'.current_num_iterations = frame.current_num_iterations + 1
               /\ frame'.qc_amplitude_amplification.data =
                      frame.qc_amplitude_amplification.data \o
                      frame.qc_amplitude_amplification_single_iteration.data
               /\ frame'.qc_amplitude_amplification.data =
                      Repeat(frame.qc_amplitude_amplification_single_iteration.data,
                             frame'.current_num_iterations)
        /\ (pc \in {"loop_test", "assemble", "execute", "decode"}) =>
               frame'.qc_amplitude_amplification = frame.qc_amplitude_amplification
    ]_vars

C10_Witness ==
    /\ self.incremental
    /\ Len(executeCalls) = 3
    /\ executeCalls[3] = ProgramOfRounds(3)
    /\ executeCalls[2] = ProgramOfRounds(2)

\* number of amplification blocks in a circuit (one oracle fragment per block)
Blocks(qc) == Cardinality({i \in 1..Len(qc.data) : qc.data[i] = <<"oracle">>})

\* C14: in incremental mode the i-th executed program is prefix, then exactly
\* i amplification blocks, then measurement; the round counts of the executed
\* programs are 1, 2, 3, ... and every executed program has between 1 and
\* max_k blocks.
C14_TrialIHasIBlocks ==
    self.incremental =>
        /\ \A i \in 1..Len(executeCalls) :
               /\ executeCalls[i] = ProgramOfRounds(i)
               /\ Blocks(executeCalls[i]) = i
               /\ 1 <= i /\ i <= MaxK(self.oracle.n)
        /\ pc = "execute" =>
               /\ frame.qc = ProgramOfRounds(Len(executeCalls) + 1)
               /\ frame.current_num_iterations = Len(executeCalls) + 1
               /\ Len(executeCalls) + 1 <= MaxK(self.oracle.n)

C14_Witness ==
    /\ self.incremental
    /\ Len(executeCalls) = 4
    /\ Blocks(executeCalls[1]) = 1
    /\ Blocks(executeCalls[4]) = 4
    /\ MaxK(self.oracle.n) = 4

\* C15 as stated: in incremental mode the iteration counter and the number of
\* blocks in the growing amplification fragment never exceed max_k, in any
\* state of a run.
C15_RoundCountNeverAboveMaxK ==
    self.incremental =>
        /\ frame.current_num_iterations <= MaxK(self.oracle.n)
        /\ Blocks(frame.qc_amplitude_amplification) <= MaxK(self.oracle.n)

\* C15 (amended): in incremental mode the iteration counter and the number
\* of blocks in the growing fragment are equal and never exceed max_k + 1;
\* they are at most max_k whenever a trial is assembled, executed, decoded or
\* verified, so no assembled program has more than max_k blocks; they are
\* max_k + 1 only after the last (max_k-th) unsuccessful trial, when no
\* further trial is made.
C15_RoundCountAtMostMaxKPlusOne ==
    (self.incremental /\ constructCalls = 1) =>
        /\ Blocks(frame.qc_amplitude_amplification) = frame.current_num_iterations
        /\ 1 <= frame.current_num_iterations
        /\ frame.current_num_iterations <= MaxK(self.oracle.n) + 1
        /\ pc \in {"assemble", "execute", "decode", "verify"} =>
               frame.current_num_iterations <= MaxK(self.oracle.n)
        /\ Blocks(frame.qc) <= MaxK(self.oracle.n)
        /\ frame.current_num_iterations = MaxK(self.oracle.n) + 1 =>
               /\ pc \in {"loop_test", "finish", "done"}
               /\ NoneVerified
               /\ Len(verifyCalls) = MaxK(self.oracle.n)
               /\ Len(executeCalls) = MaxK(self.oracle.n)

C15_Witness ==
    /\ self.incremental
    /\ pc = "done"
    /\ MaxK(self.oracle.n) = 4
    /\ frame.current_num_iterations = 5
    /\ Blocks(frame.qc_amplitude_amplification) = 5
    /\ Blocks(self.ret["circuit"]) = 4

\* C16: trials are sequential and each performs assemble, execute, decode,
\* verify in this order, each once: decode receives the counts of the same
\* trial's execution, verify receives the assignment decoded in the same
\* trial, and in incremental mode a trial is assembled only after every
\* earlier trial's verification returned false.
C16_TrialStepsInOrder ==
    /\ [](/\ Len(decodeCalls) <= Len(executeCalls)
          /\ Len(verifyCalls) <= Len(decodeCalls)
          /\ Len(executeCalls) <= Len(verifyCalls) + 1
          /\ \A i \in 1..Len(decodeCalls) : decodeCalls[i] = responses[i]
          /\ \A i \in 1..Len(verifyCalls) :
                 verifyCalls[i].arg = InterpretMeasurement(self.oracle, decodeCalls[i])
          /\ pc \in {"assemble", "execute"} =>
                 /\ Len(verifyCalls) = Len(executeCalls)
                 /\ self.incremental => NoneVerified
          /\ pc = "decode" =>
                 Len(decodeCalls) = Len(executeCalls) - 1
          /\ pc = "verify" =>
                 /\ Len(decodeCalls) = Len(executeCalls)
                 /\ Len(verifyCalls) = Len(executeCalls) - 1)
    /\ [][/\ pc = "assemble" => pc' = "execute"
          /\ pc = "execute" => pc' \in {"decode", "raised"}
          /\ pc = "decode" => pc' = "verify"
          /\ pc = "verify" => pc' \in {"loop_test", "finish"}
          /\ pc' = "assemble" => pc \in {"idle", "loop_test"}
          /\ (pc = "loop_test" /\ pc' = "assemble") =>
                 /\ ~frame.oracle_evaluation
                 /\ Len(executeCalls) >= 1 =>
                        ~verifyCalls[Len(verifyCalls)].ret
          /\ Len(executeCalls') <= Len(executeCalls) + 1
          /\ Len(decodeCalls') <= Len(decodeCalls) + 1
          /\ Len(verifyCalls') <= Len(verifyCalls) + 1
      ]_vars

C16_Witness ==
    /\ self.incremental
    /\ pc = "assemble"
    /\ Len(executeCalls) = 2
    /\ Len(decodeCalls) = 2
    /\ Len(verifyCalls) = 2
    /\ ~verifyCalls[2].ret

\* C17: the four fields of a returned result come from the final executed
\* trial: the program is the last program executed (with exactly max_k
\* blocks when an incremental run is exhausted, m blocks in fixed mode), the
\* counts are that execution's counts, the assignment is decoded from those
\* counts, and verified is the verification of that assignment.
C17_ResultIsFinalTrial ==
    pc = "done" =>
        LET t == Len(executeCalls)
        IN  /\ t >= 1
            /\ Len(verifyCalls) = t
            /\ CompleteResult
            /\ self.ret["circuit"] = executeCalls[t]
            /\ self.ret["measurements"] = responses[t]
            /\ self.ret["measurements"] = decodeCalls[t]
            /\ self.ret["result"] = verifyCalls[t].arg
            /\ self.ret["oracle_evaluation"] = verifyCalls[t].ret
            /\ (self.incremental /\ ~self.ret["oracle_evaluation"]) =>
                   Blocks(self.ret["circuit"]) = MaxK(self.oracle.n)
            /\ self.incremental => Blocks(self.ret["circuit"]) = t
            /\ ~self.incremental =>
                   Blocks(self.ret["circuit"]) = self.num_iterations

C17_Witness ==
    /\ self.incremental
    /\ pc = "done"
    /\ Len(executeCalls) = 4
    /\ ~self.ret["oracle_evaluation"]
    /\ Blocks(self.ret["circuit"]) = 4
    /\ responses[4] # responses[3]
    /\ self.ret["measurements"] = responses[4]

\* C18: within a run the fragments are built once, before the first trial;
\* prefix, single-round block and measurement fragment are never changed by
\* a trial or a growth step, and the growing amplification fragment changes
\* only in a growth step, by one appended block.
C18_FragmentsBuiltOnceAndKept ==
    /\ [](/\ constructCalls <= 1
          /\ Len(executeCalls) >= 1 => constructCalls = 1
          /\ pc \in {"loop_test", "assemble", "execute", "decode", "verify", "finish"} =>
                 /\ constructCalls = 1
                 /\ frame.qc_prefix = ConstructCircuitComponents(self.oracle).qc_prefix
                 /\ frame.qc_amplitude_amplification_single_iteration =
                        ConstructCircuitComponents(self.oracle).
                            qc_amplitude_amplification_single_iteration
                 /\ frame.qc_measurement =
                        ConstructCircuitComponents(self.oracle).qc_measurement)
    /\ [][/\ pc \in {"loop_test", "assemble", "execute", "decode", "verify", "finish"} =>
                 /\ constructCalls' = constructCalls
                 /\ frame'.qc_prefix = frame.qc_prefix
                 /\ frame'.qc_amplitude_amplification_single_iteration =
                        frame.qc_amplitude_amplification_single_iteration
                 /\ frame'.qc_measurement = frame.qc_measurement
          /\ (pc \in {"loop_test", "assemble", "execute", "decode", "finish"}
                 \/ (pc = "verify" /\ pc' # "loop_test")) =>
                 frame'.qc_amplitude_amplification = frame.qc_amplitude_amplification
          /\ (pc = "verify" /\ pc' = "loop_test") =>
                 /\ self.incremental
                 /\ frame'.qc_amplitude_amplification.regs =
                        frame.qc_amplitude_amplification.regs
                 /\ frame'.qc_amplitude_amplification.data =
                        frame.qc_amplitude_amplification.data \o
                        frame.qc_amplitude_amplification_single_iteration.data
      ]_vars

C18_Witness ==
    /\ self.incremental
    /\ pc = "loop_test"
    /\ Len(executeCalls) = 2
    /\ constructCalls = 1
    /\ Blocks(frame.qc_amplitude_amplification) = 3
    /\ frame.qc_prefix = ConstructCircuitComponents(self.oracle).qc_prefix

\* C19: every run ends, after finitely many trials (at most max_k in
\* incremental mode, at most one in fixed mode), and ends in exactly one of:
\* a returned result with verified = true, a returned result with
\* verified = false, an error that left run with nothing returned.
C19_VerifiedResult ==
    /\ pc = "done" /\ returned = "self._ret" /\ raised = "none"
    /\ CompleteResult
    /\ self.ret["oracle_evaluation"] = TRUE

C19_UnverifiedResult ==
    /\ pc = "done" /\ returned = "self._ret" /\ raised = "none"
    /\ CompleteResult
    /\ self.ret["oracle_evaluation"] = FALSE

C19_PropagatedError ==
    /\ pc = "raised" /\ returned = "nothing"
    /\ raised \in {"ValueError", "ExecutionFailure", "UnboundLocalError"}

C19_EveryRunTerminates ==
    /\ <>Ended
    /\ [](Len(executeCalls) <= IF self.incremental THEN MaxK(self.oracle.n) ELSE 1)
    /\ [](Ended => \/ C19_VerifiedResult /\ ~C19_UnverifiedResult /\ ~C19_PropagatedError
                   \/ ~C19_VerifiedResult /\ C19_UnverifiedResult /\ ~C19_PropagatedError
                   \/ ~C19_VerifiedResult /\ ~C19_UnverifiedResult /\ C19_PropagatedError)
    /\ [][Ended => UNCHANGED vars]_vars

C19_Witness ==
    /\ self.incremental
    /\ MaxK(self.oracle.n) >= 2
    /\ Len(executeCalls) = MaxK(self.oracle.n)
    /\ NoExecuteFailure
    /\ C19_UnverifiedResult

\* C12: whatever runs a controller has made before, a further run starts at
\* one block (incremental) or m blocks (fixed) with fragments built in that
\* run, and makes the same trials, decodes and verifications, ends the same
\* way and returns the same four result fields as the run of a newly built
\* controller of the same configuration that receives the same responses.
C12_RunDependsOnlyOnConfigAndResponses ==
    /\ pc \in {"loop_test", "assemble", "execute", "decode", "verify", "finish"} =>
           constructCalls = 1
    /\ Len(executeCalls) >= 1 =>
           executeCalls[1] = ProgramOfRounds(IF self.incremental THEN 1
                                             ELSE self.num_iterations)
    /\ (first.active /\ first.phase = "fresh") =>
           /\ IsPrefix(executeCalls, first.executeCalls)
           /\ IsPrefix(decodeCalls, first.decodeCalls)
           /\ IsPrefix(verifyCalls, first.verifyCalls)
           /\ Ended =>
                  /\ executeCalls = first.executeCalls
                  /\ decodeCalls = first.decodeCalls
                  /\ verifyCalls = first.verifyCalls
                  /\ raised = first.raised
                  /\ returned = first.returned
                  /\ returned = "self._ret" => self.ret = first.ret

C12_Witness ==
    /\ first.active /\ first.phase = "fresh"
    /\ self.incremental
    /\ pc = "done"
    /\ Len(executeCalls) = 2
    /\ first.ret["oracle_evaluation"] = FALSE
    /\ self.ret = first.ret

\* C20: the result an earlier run returned still has, during and after every
\* later run of the same controller, the program, sample counts, assignment
\* and verified flag it had when it was returned.
C20_EarlierResultUnchanged ==
    (first.active /\ first.phase = "rerun" /\ first.held) =>
        EarlierResult = first.result

TypeOK ==
    /\ pc \in {"idle", "loop_test", "assemble", "execute", "decode", "verify",
               "finish", "done", "raised"}
    /\ backend \in Backends
    /\ warnings \in 0..1
    /\ returned \in {"nothing", "self._ret"}
====
